---- MODULE Spec2Model ----
(***************************************************************************)
(* The battle escrow of battle_arena::battle (Move, OneChain/Sui): a       *)
(* shared Battle object custodies the stakes of two players; the holder    *)
(* of the AdminCap finalizes it, player 1 or the battle's admin address    *)
(* cancels it.  Every entry function is one transaction: it either         *)
(* returns, and its effects are committed, or it aborts with a code, and   *)
(* nothing of it remains.                                                  *)
(*                                                                         *)
(* The package's other module, battle_arena::battle_token, mints and burns *)
(* the BTK coin under a MintCap.  The two modules share no state (a Battle *)
(* holds Coin<OCT>, never BTK), so each has its own specification: Spec    *)
(* for battle, TokenSpec for battle_token.                                 *)
(***************************************************************************)
EXTENDS Integers, Sequences, FiniteSets, TLC

\* ---------------------------------------------------------------- bounds
\* Shared Battle objects ever created (object::new is called once per battle).
MaxBattles == 1
\* Largest value of a Coin<OCT> offered as a stake.
MaxStake == 1
\* Largest amount passed to battle_token::mint.
MaxMint == 2
\* BTK minted over a whole run: mints stop when the total reaches it.
MaxMinted == 3

\* ------------------------------------------------------------- addresses
ADMIN == "ADMIN"
ALICE == "ALICE"
BOB == "BOB"
Accounts == {ADMIN, ALICE, BOB}
\* The accounts the test setup mints OCT to.
Funded == {ALICE, BOB}
\* OCT minted to each funded account: enough for a stake and a second coin
\* (the tests mint 2000 and stake 500).
InitialCoins == MaxStake + 1
\* The values of the coins an account can offer as a stake.
Stakes(balance) == {v \in 0..MaxStake : v <= balance}
\* The `admin` argument of create_battle is any address the creator likes:
\* the publisher (who holds the AdminCap) or somebody who does not hold it.
AdminArgs == {ADMIN, BOB}

\* ----------------------------------------------------------- error codes
ENotAuthorized == 0
EBattleAlreadyFull == 1
EInvalidStakeAmount == 2
EBattleNotReady == 3
ECannotJoinOwnBattle == 4
EInvalidWinner == 5
EPlayer2AlreadyJoined == 6
\* battle_token's only code.
EInvalidAmount == 0

VARIABLES
    battles,    \* the shared Battle objects that exist: id -> Battle
    created,    \* number of Battle UIDs handed out so far (ids are 1..created)
    bal,        \* address -> total value of the Coin<OCT> objects it owns
    events,     \* the sequence of emitted events
    capOwner,   \* the address that owns the AdminCap
    last,       \* the last transaction submitted and its outcome
    prev,       \* the ledger as it was before that transaction
    openBal,    \* Battle id -> the balances before the transaction that created it
    supply,       \* total_supply of the TreasuryCap<BATTLE_TOKEN> inside the MintCap
    owned,        \* address -> total value of the Coin<BATTLE_TOKEN> objects it owns
    mintCapOwner, \* the address that owns the MintCap
    tokLast,      \* the last battle_token transaction, its outcome and return value
    tokPrev,      \* the token ledger as it was before that transaction
    minted,       \* sum of the amounts of the mint calls that succeeded
    burned        \* sum of the values of the coins burned

battleVars == <<battles, created, bal, events, capOwner, last, prev, openBal>>
tokenVars == <<supply, owned, mintCapOwner, tokLast, tokPrev, minted, burned>>
vars == <<battles, created, bal, events, capOwner, last, prev, openBal,
          supply, owned, mintCapOwner, tokLast, tokPrev, minted, burned>>

\* The ledger a transaction reads and writes.
Ledger == [battles |-> battles, created |-> created, bal |-> bal, events |-> events]

\* ------------------------------------------------------ transaction outcome
Success == [status |-> "success", code |-> -1]
AbortCode(c) == [status |-> "abort", code |-> c]
\* The transaction never reaches the Move code: an input object is missing.
Rejected == [status |-> "rejected", code |-> -1]

\* assert!(FALSE, code): the transaction aborts and the ledger is the one it started from.
Abort(st, code) == [res |-> AbortCode(code), st |-> st]
Return(st) == [res |-> Success, st |-> st]
Reject(st) == [res |-> Rejected, st |-> st]

\* ------------------------------------------------------------ std / framework
option_none == <<>>
option_is_none(o) == o = <<>>
option_fill(o, v) == Append(o, v)
option_destroy_some(o) == o[1]

\* transfer::public_transfer of a coin of value v to an address.
public_transfer(st, v, to) == [st EXCEPT !.bal[to] = @ + v]
\* A Coin<OCT> of value v leaves its owner's coins and enters the call.
take_coin(st, owner, v) == [st EXCEPT !.bal[owner] = @ - v]
event_emit(st, e) == [st EXCEPT !.events = Append(@, e)]
\* object::delete of a Battle's UID, after the Battle was unpacked.
object_delete(st, id) ==
    [st EXCEPT !.battles = [i \in (DOMAIN @) \ {id} |-> @[i]]]
\* transfer::share_object of a new Battle.
share_object(st, b) ==
    [st EXCEPT !.battles = [i \in (DOMAIN @) \cup {b.id} |-> IF i = b.id THEN b ELSE @[i]]]

\* -------------------------------------------------------------- events
BattleCreated(id, p1, p2, amount) ==
    [type |-> "BattleCreated", battle_id |-> id, player1 |-> p1, player2 |-> p2,
     stake_amount |-> amount]
BattleJoined(id, p2) == [type |-> "BattleJoined", battle_id |-> id, player2 |-> p2]
BattleFinalized(id, winner, prize) ==
    [type |-> "BattleFinalized", battle_id |-> id, winner |-> winner, total_prize |-> prize]
BattleCancelled(id, to) == [type |-> "BattleCancelled", battle_id |-> id, refunded_to |-> to]

\* create_battle with the opponent and admin arguments stored in each other's field.
create_battle_swaps_addresses(st, sender, stake, opponent, admin) ==
    LET st0 == take_coin(st, sender, stake) IN
    IF ~(sender # opponent) THEN Abort(st, ECannotJoinOwnBattle)
    ELSE IF ~(stake > 0) THEN Abort(st, EInvalidStakeAmount)
    ELSE LET battle_id == st0.created + 1
             battle == [id |-> battle_id,
                        player1 |-> sender,
                        player2 |-> admin,
                        player1_stake |-> stake,
                        player2_stake |-> option_none,
                        stake_amount |-> stake,
                        is_ready |-> FALSE,
                        admin |-> opponent]
             st1 == [st0 EXCEPT !.created = battle_id]
             st2 == event_emit(st1, BattleCreated(battle_id, sender, opponent, stake))
         IN Return(share_object(st2, battle))

\* create_battle with its checks as parameters, for the variants below: whether
\* the stake is checked before the opponent, whether a zero stake is refused.
create_battle_variant(st, sender, stake, opponent, admin, stake_first, refuse_zero) ==
    LET st0 == take_coin(st, sender, stake)
        battle_id == st0.created + 1
        battle == [id |-> battle_id, player1 |-> sender, player2 |-> opponent,
                   player1_stake |-> stake, player2_stake |-> option_none,
                   stake_amount |-> stake, is_ready |-> FALSE, admin |-> admin]
        st1 == [st0 EXCEPT !.created = battle_id]
        st2 == event_emit(st1, BattleCreated(battle_id, sender, opponent, stake))
    IN
    IF stake_first /\ refuse_zero /\ ~(stake > 0) THEN Abort(st, EInvalidStakeAmount)
    ELSE IF ~(sender # opponent) THEN Abort(st, ECannotJoinOwnBattle)
    ELSE IF refuse_zero /\ ~(stake > 0) THEN Abort(st, EInvalidStakeAmount)
    ELSE Return(share_object(st2, battle))

\* create_battle asserting stake_amount > 0 before sender != opponent.
create_battle_stake_check_first(st, sender, stake, opponent, admin) ==
    create_battle_variant(st, sender, stake, opponent, admin, TRUE, TRUE)
\* create_battle without `assert!(stake_amount > 0, ...)`.
create_battle_accepts_zero(st, sender, stake, opponent, admin) ==
    create_battle_variant(st, sender, stake, opponent, admin, FALSE, FALSE)

\* ------------------------------------------------------------ create_battle
create_battle(st, sender, stake, opponent, admin) ==
    LET st0 == take_coin(st, sender, stake) IN
    IF ~(sender # opponent) THEN Abort(st, ECannotJoinOwnBattle)
    ELSE LET stake_amount == stake IN
    IF ~(stake_amount > 0) THEN Abort(st, EInvalidStakeAmount)
    ELSE LET battle_id == st0.created + 1
             battle == [id |-> battle_id,
                        player1 |-> sender,
                        player2 |-> opponent,
                        player1_stake |-> stake,
                        player2_stake |-> option_none,
                        stake_amount |-> stake_amount,
                        is_ready |-> FALSE,
                        admin |-> admin]
             st1 == [st0 EXCEPT !.created = battle_id]
             st2 == event_emit(st1, BattleCreated(battle_id, sender, opponent, stake_amount))
         IN Return(share_object(st2, battle))

\* An entry function that takes a Battle needs the shared object to exist:
\* a transaction naming a deleted (or not yet created) Battle is refused.
battle_exists(st, id) == id \in DOMAIN st.battles

\* join_battle with its checks and effects as parameters, for the variants below:
\* who may join, whether a filled slot is looked at (and before or after the
\* stake), which stakes are accepted, whether is_ready is set.
join_battle_variant(st, sender, id, stake, anyone, slot, accept_less, set_ready) ==
    LET battle == st.battles[id]
        st0 == take_coin(st, sender, stake)
        full == ~option_is_none(battle.player2_stake)
        stake_ok == IF accept_less THEN stake <= battle.stake_amount
                    ELSE stake = battle.stake_amount
    IN
    IF ~anyone /\ ~(sender = battle.player2) THEN Abort(st, ENotAuthorized)
    ELSE IF slot = "first" /\ full THEN Abort(st, EPlayer2AlreadyJoined)
    ELSE IF ~stake_ok THEN Abort(st, EInvalidStakeAmount)
    ELSE IF slot = "last" /\ full THEN Abort(st, EPlayer2AlreadyJoined)
    ELSE LET st1 == [st0 EXCEPT !.battles[id].player2_stake = <<stake>>,
                                !.battles[id].is_ready = IF set_ready THEN TRUE ELSE @]
         IN Return(event_emit(st1, BattleJoined(battle.id, sender)))

\* join_battle without `assert!(option::is_none(&battle.player2_stake), ...)`.
join_battle_no_slot_check(st, sender, id, stake) ==
    join_battle_variant(st, sender, id, stake, FALSE, "never", FALSE, TRUE)
\* join_battle checking the stake before the slot.
join_battle_stake_check_first(st, sender, id, stake) ==
    join_battle_variant(st, sender, id, stake, FALSE, "last", FALSE, TRUE)
\* join_battle without `assert!(sender == battle.player2, ...)`.
join_battle_anyone(st, sender, id, stake) ==
    join_battle_variant(st, sender, id, stake, TRUE, "first", FALSE, TRUE)
\* join_battle accepting any stake up to stake_amount.
join_battle_accepts_less(st, sender, id, stake) ==
    join_battle_variant(st, sender, id, stake, FALSE, "first", TRUE, TRUE)
\* join_battle without `battle.is_ready = true`.
join_battle_forgets_ready(st, sender, id, stake) ==
    join_battle_variant(st, sender, id, stake, FALSE, "first", FALSE, FALSE)

\* join_battle recording the total at stake (both coins) in stake_amount.
join_battle_sums_stake_amount(st, sender, id, stake) ==
    LET battle == st.battles[id]
        st0 == take_coin(st, sender, stake)
    IN
    IF ~(sender = battle.player2) THEN Abort(st, ENotAuthorized)
    ELSE IF ~option_is_none(battle.player2_stake) THEN Abort(st, EPlayer2AlreadyJoined)
    ELSE IF ~(stake = battle.stake_amount) THEN Abort(st, EInvalidStakeAmount)
    ELSE LET st1 == [st0 EXCEPT !.battles[id].player2_stake = option_fill(@, stake),
                                !.battles[id].stake_amount = @ + stake,
                                !.battles[id].is_ready = TRUE]
         IN Return(event_emit(st1, BattleJoined(battle.id, sender)))

\* -------------------------------------------------------------- join_battle
join_battle(st, sender, id, stake) ==
    LET battle == st.battles[id]
        st0 == take_coin(st, sender, stake)
    IN
    IF ~(sender = battle.player2) THEN Abort(st, ENotAuthorized)
    ELSE IF ~option_is_none(battle.player2_stake) THEN Abort(st, EPlayer2AlreadyJoined)
    ELSE LET stake_value == stake IN
    IF ~(stake_value = battle.stake_amount) THEN Abort(st, EInvalidStakeAmount)
    ELSE LET st1 == [st0 EXCEPT !.battles[id].player2_stake = option_fill(@, stake),
                                !.battles[id].is_ready = TRUE]
         IN Return(event_emit(st1, BattleJoined(battle.id, sender)))

\* finalize_battle without coin::join: the winner gets player 1's stake and
\* player 2's coins go back to player 2.
finalize_battle_no_merge(st, id, winner) ==
    LET battle == st.battles[id] IN
    IF ~battle.is_ready THEN Abort(st, EBattleNotReady)
    ELSE IF ~(winner = battle.player1 \/ winner = battle.player2) THEN Abort(st, EInvalidWinner)
    ELSE LET st1 == public_transfer(st, battle.player1_stake, winner)
             st2 == public_transfer(st1, option_destroy_some(battle.player2_stake), battle.player2)
             st3 == event_emit(st2, BattleFinalized(battle.id, winner, battle.player1_stake))
         IN Return(object_delete(st3, id))

\* finalize_battle paying out stake_amount instead of the merged coin.
finalize_battle_pays_one_stake(st, id, winner) ==
    LET battle == st.battles[id] IN
    IF ~battle.is_ready THEN Abort(st, EBattleNotReady)
    ELSE IF ~(winner = battle.player1 \/ winner = battle.player2) THEN Abort(st, EInvalidWinner)
    ELSE LET st1 == public_transfer(st, battle.stake_amount, winner)
             st2 == event_emit(st1, BattleFinalized(battle.id, winner, battle.stake_amount))
         IN Return(object_delete(st2, id))

\* finalize_battle with its checks and effects as parameters, for the variants
\* below: whether the winner is checked before is_ready, whether the winner is
\* checked at all, whether the Battle's UID is deleted.
finalize_battle_variant(st, id, winner, winner_first, check_winner, delete) ==
    LET battle == st.battles[id]
        winner_ok == winner = battle.player1 \/ winner = battle.player2
        joined == battle.player1_stake + option_destroy_some(battle.player2_stake)
        st1 == public_transfer(st, joined, winner)
        st2 == event_emit(st1, BattleFinalized(battle.id, winner, joined))
    IN
    IF winner_first /\ check_winner /\ ~winner_ok THEN Abort(st, EInvalidWinner)
    ELSE IF ~battle.is_ready THEN Abort(st, EBattleNotReady)
    ELSE IF check_winner /\ ~winner_ok THEN Abort(st, EInvalidWinner)
    ELSE Return(IF delete THEN object_delete(st2, id) ELSE st2)

\* finalize_battle asserting the winner before is_ready.
finalize_battle_winner_check_first(st, id, winner) ==
    finalize_battle_variant(st, id, winner, TRUE, TRUE, TRUE)
\* finalize_battle without `assert!(winner == player1 || winner == player2, ...)`.
finalize_battle_any_winner(st, id, winner) ==
    finalize_battle_variant(st, id, winner, FALSE, FALSE, TRUE)
\* finalize_battle that pays the winner and leaves the Battle shared.
finalize_battle_keeps_battle(st, id, winner) ==
    finalize_battle_variant(st, id, winner, FALSE, TRUE, FALSE)

\* finalize_battle without `assert!(is_ready, ...)`: a Battle nobody joined
\* pays player 1's stake to the winner.
finalize_battle_skips_ready_check(st, id, winner) ==
    LET battle == st.battles[id] IN
    IF ~(winner = battle.player1 \/ winner = battle.player2) THEN Abort(st, EInvalidWinner)
    ELSE LET joined == battle.player1_stake +
                       (IF option_is_none(battle.player2_stake) THEN 0
                        ELSE option_destroy_some(battle.player2_stake))
             st1 == public_transfer(st, joined, winner)
             st2 == event_emit(st1, BattleFinalized(battle.id, winner, joined))
         IN Return(object_delete(st2, id))

\* ---------------------------------------------------------- finalize_battle
\* The caller passes a reference to the AdminCap, so it is called by the
\* AdminCap's owner only (see FinalizeBattle); the Battle's admin field is
\* unpacked and dropped (`admin: _`).
finalize_battle(st, id, winner) ==
    LET battle == st.battles[id]
        player1 == battle.player1
        player2 == battle.player2
        player1_stake == battle.player1_stake
        player2_stake == battle.player2_stake
        is_ready == battle.is_ready
    IN
    IF ~is_ready THEN Abort(st, EBattleNotReady)
    ELSE IF ~(winner = player1 \/ winner = player2) THEN Abort(st, EInvalidWinner)
    ELSE LET battle_id == battle.id
             player2_coins == option_destroy_some(player2_stake)
             joined == player1_stake + player2_coins
             total_prize == joined
             st1 == public_transfer(st, joined, winner)
             st2 == event_emit(st1, BattleFinalized(battle_id, winner, total_prize))
         IN Return(object_delete(st2, id))

\* cancel_battle refunding player 1 before it checks the sender, and reporting
\* the unauthorized sender without unwinding the refund.
cancel_battle_refunds_first(st, sender, id) ==
    LET battle == st.battles[id]
        st1 == public_transfer(st, battle.player1_stake, battle.player1)
    IN
    IF ~(~battle.is_ready) THEN Abort(st, EBattleAlreadyFull)
    ELSE IF ~(sender = battle.player1 \/ sender = battle.admin) THEN Abort(st1, ENotAuthorized)
    ELSE IF ~option_is_none(battle.player2_stake) THEN Abort(st, EBattleAlreadyFull)
    ELSE LET st2 == event_emit(st1, BattleCancelled(battle.id, battle.player1))
         IN Return(object_delete(st2, id))

\* cancel_battle with its checks and effects as parameters, for the variants
\* below: whether the sender is checked before is_ready, whether player 2 may
\* cancel too, and who is refunded ("player1", "sender" or "admin").
cancel_battle_variant(st, sender, id, sender_first, player2_too, refund) ==
    LET battle == st.battles[id]
        sender_ok == \/ sender = battle.player1 \/ sender = battle.admin
                     \/ (player2_too /\ sender = battle.player2)
        to == IF refund = "sender" THEN sender
              ELSE IF refund = "admin" THEN battle.admin ELSE battle.player1
        st1 == public_transfer(st, battle.player1_stake, to)
        st2 == event_emit(st1, BattleCancelled(battle.id, to))
    IN
    IF sender_first /\ ~sender_ok THEN Abort(st, ENotAuthorized)
    ELSE IF ~(~battle.is_ready) THEN Abort(st, EBattleAlreadyFull)
    ELSE IF ~sender_ok THEN Abort(st, ENotAuthorized)
    ELSE IF ~option_is_none(battle.player2_stake) THEN Abort(st, EBattleAlreadyFull)
    ELSE Return(object_delete(st2, id))

\* cancel_battle asserting the sender before is_ready.
cancel_battle_sender_check_first(st, sender, id) ==
    cancel_battle_variant(st, sender, id, TRUE, FALSE, "player1")
\* cancel_battle refunding whoever called it.
cancel_battle_refunds_sender(st, sender, id) ==
    cancel_battle_variant(st, sender, id, FALSE, FALSE, "sender")
\* cancel_battle that lets player 2 cancel as well.
cancel_battle_allows_player2(st, sender, id) ==
    cancel_battle_variant(st, sender, id, FALSE, TRUE, "player1")
\* cancel_battle refunding the Battle's admin address.
cancel_battle_refunds_admin(st, sender, id) ==
    cancel_battle_variant(st, sender, id, FALSE, FALSE, "admin")

\* cancel_battle without `event::emit(BattleCancelled { ... })`.
cancel_battle_emits_nothing(st, sender, id) ==
    LET battle == st.battles[id] IN
    IF ~(~battle.is_ready) THEN Abort(st, EBattleAlreadyFull)
    ELSE IF ~(sender = battle.player1 \/ sender = battle.admin) THEN Abort(st, ENotAuthorized)
    ELSE IF ~option_is_none(battle.player2_stake) THEN Abort(st, EBattleAlreadyFull)
    ELSE Return(object_delete(public_transfer(st, battle.player1_stake, battle.player1), id))

\* cancel_battle that looks at the sender only: player 1 is refunded its stake
\* whether or not player 2 has joined.
cancel_battle_ignores_ready(st, sender, id) ==
    LET battle == st.battles[id] IN
    IF ~(sender = battle.player1 \/ sender = battle.admin) THEN Abort(st, ENotAuthorized)
    ELSE LET st1 == public_transfer(st, battle.player1_stake, battle.player1)
             st2 == event_emit(st1, BattleCancelled(battle.id, battle.player1))
         IN Return(object_delete(st2, id))

\* ------------------------------------------------------------ cancel_battle
cancel_battle(st, sender, id) ==
    LET battle == st.battles[id]
        player1 == battle.player1
        player1_stake == battle.player1_stake
        player2_stake == battle.player2_stake
        is_ready == battle.is_ready
        admin == battle.admin
    IN
    IF ~(~is_ready) THEN Abort(st, EBattleAlreadyFull)
    ELSE IF ~(sender = player1 \/ sender = admin) THEN Abort(st, ENotAuthorized)
    ELSE IF ~option_is_none(player2_stake) THEN Abort(st, EBattleAlreadyFull)
    ELSE LET battle_id == battle.id
             st1 == public_transfer(st, player1_stake, player1)
             st2 == event_emit(st1, BattleCancelled(battle_id, player1))
         IN Return(object_delete(st2, id))

\* ------------------------------------------------------------ transactions
Call(op, sender, id, stake, opponent, admin, winner) ==
    [op |-> op, sender |-> sender, id |-> id, stake |-> stake,
     opponent |-> opponent, admin |-> admin, winner |-> winner]

NoCall == Call("init", ADMIN, 0, 0, ADMIN, ADMIN, ADMIN)

\* The transaction's outcome becomes the ledger; its call and result are recorded.
Apply(call, out) ==
    /\ battles' = out.st.battles
    /\ created' = out.st.created
    /\ bal' = out.st.bal
    /\ events' = out.st.events
    /\ last' = [call |-> call, res |-> out.res]
    /\ prev' = Ledger
    /\ openBal' = IF out.st.created = created THEN openBal
                  ELSE [i \in DOMAIN openBal \cup {out.st.created} |->
                          IF i = out.st.created THEN bal ELSE openBal[i]]
    /\ UNCHANGED capOwner
    /\ UNCHANGED tokenVars

\* A battle_token transaction: who sends it, the amount minted or the value of
\* the coin burned, the recipient of the mint or the owner of the coin.
TokenCall(op, sender, amount, recipient) ==
    [op |-> op, sender |-> sender, amount |-> amount, recipient |-> recipient]

NoTokenCall == TokenCall("init", ADMIN, 0, ADMIN)

\* battle_token::init run by the publisher: nothing minted, the MintCap with
\* the publisher.
TokenInit ==
    /\ supply = 0
    /\ owned = [a \in Accounts |-> 0]
    /\ mintCapOwner = ADMIN
    /\ tokLast = [call |-> NoTokenCall, res |-> Success, ret |-> 0]
    /\ tokPrev = [supply |-> 0, owned |-> [a \in Accounts |-> 0]]
    /\ minted = 0
    /\ burned = 0

\* battle::init run by the publisher, then the test setup's mints.
Init ==
    /\ TokenInit
    /\ battles = << >>
    /\ created = 0
    /\ bal = [a \in Accounts |-> IF a \in Funded THEN InitialCoins ELSE 0]
    /\ events = << >>
    /\ capOwner = ADMIN
    /\ last = [call |-> NoCall, res |-> Success]
    /\ prev = [battles |-> << >>, created |-> 0,
               bal |-> [a \in Accounts |-> IF a \in Funded THEN InitialCoins ELSE 0],
               events |-> << >>]
    /\ openBal = << >>

CreateBattle ==
    \E sender \in Accounts, opponent \in Accounts, admin \in AdminArgs :
      \E stake \in Stakes(bal[sender]) :
        /\ created < MaxBattles
        /\ Apply(Call("create", sender, 0, stake, opponent, admin, ADMIN),
                 create_battle(Ledger, sender, stake, opponent, admin))

JoinBattle ==
    \E sender \in Accounts, id \in 1..created :
      \E stake \in Stakes(bal[sender]) :
        Apply(Call("join", sender, id, stake, ADMIN, ADMIN, ADMIN),
              IF battle_exists(Ledger, id)
              THEN join_battle(Ledger, sender, id, stake)
              ELSE Reject(Ledger))

FinalizeBattle ==
    \E sender \in Accounts, id \in 1..created, winner \in Accounts :
        Apply(Call("finalize", sender, id, 0, ADMIN, ADMIN, winner),
              IF sender = capOwner /\ battle_exists(Ledger, id)
              THEN finalize_battle(Ledger, id, winner)
              ELSE Reject(Ledger))

CancelBattle ==
    \E sender \in Accounts, id \in 1..created :
        Apply(Call("cancel", sender, id, 0, ADMIN, ADMIN, ADMIN),
              IF battle_exists(Ledger, id)
              THEN cancel_battle(Ledger, sender, id)
              ELSE Reject(Ledger))

Next == CreateBattle \/ JoinBattle \/ FinalizeBattle \/ CancelBattle

Spec == Init /\ [][Next]_vars

\* ------------------------------------------------------------ battle_token
\* The ledger a battle_token transaction reads and writes.
TokenLedger == [supply |-> supply, owned |-> owned]

\* coin::mint: the supply grows by the value of the new coin.
coin_mint(tk, amount) == [tk EXCEPT !.supply = @ + amount]
\* coin::burn: the supply shrinks by the value of the coin, which is returned.
coin_burn(tk, value) == [tk EXCEPT !.supply = @ - value]
\* transfer::public_transfer of a Coin<BATTLE_TOKEN> of value v to an address.
token_transfer(tk, v, to) == [tk EXCEPT !.owned[to] = @ + v]
\* A Coin<BATTLE_TOKEN> of value v leaves its owner's coins and enters the call.
take_token(tk, owner, v) == [tk EXCEPT !.owned[owner] = @ - v]

\* mint without `assert!(amount > 0, EInvalidAmount)`.
mint_accepts_zero(tk, amount, recipient) ==
    Return(token_transfer(coin_mint(tk, amount), amount, recipient))

mint(tk, amount, recipient) ==
    IF ~(amount > 0) THEN Abort(tk, EInvalidAmount)
    ELSE LET tk1 == coin_mint(tk, amount)
         IN Return(token_transfer(tk1, amount, recipient))

\* burn destroying the coin without telling the TreasuryCap: the supply stays.
burn_keeps_supply(tk, owner, value) ==
    [res |-> Success, st |-> take_token(tk, owner, value), ret |-> value]

\* burn returns what coin::burn returns: the value of the coin.
burn(tk, owner, value) ==
    [res |-> Success, st |-> coin_burn(take_token(tk, owner, value), value), ret |-> value]

total_supply(tk) == tk.supply

\* The transaction's outcome becomes the token ledger; its call, result and
\* return value are recorded, and the successful mints and burns summed up.
TokenApply(call, out, ret) ==
    /\ supply' = out.st.supply
    /\ owned' = out.st.owned
    /\ tokLast' = [call |-> call, res |-> out.res, ret |-> ret]
    /\ tokPrev' = TokenLedger
    /\ minted' = IF call.op = "mint" /\ out.res = Success THEN minted + call.amount ELSE minted
    /\ burned' = IF call.op = "burn" /\ out.res = Success THEN burned + call.amount ELSE burned
    /\ UNCHANGED mintCapOwner
    /\ UNCHANGED battleVars

\* mint takes `&mut MintCap`: a sender that does not own the MintCap cannot
\* make the call.
Mint ==
    \E sender \in Accounts, amount \in 0..MaxMint, recipient \in Accounts :
        /\ minted + amount <= MaxMinted
        /\ TokenApply(TokenCall("mint", sender, amount, recipient),
                      IF sender = mintCapOwner
                      THEN mint(TokenLedger, amount, recipient)
                      ELSE Reject(TokenLedger),
                      0)

\* burn takes `&mut MintCap` too, and a coin by value: a coin (split off the
\* coins) of some owner, handed to the call the MintCap's owner makes.
Burn ==
    \E owner \in Accounts : \E value \in 0..owned[owner] :
        LET out == burn(TokenLedger, owner, value) IN
        TokenApply(TokenCall("burn", mintCapOwner, value, owner), out, out.ret)

TokenNext == Mint \/ Burn

TokenSpec == Init /\ [][TokenNext]_vars

\* The backend's finalizeBattle: the AdminCap's owner signs a finalize_battle
\* for a ready Battle and one of its players, which succeeds.
Settle(id) ==
    \E winner \in Accounts :
        /\ battle_exists(Ledger, id)
        /\ finalize_battle(Ledger, id, winner).res = Success
        /\ Apply(Call("finalize", capOwner, id, 0, ADMIN, ADMIN, winner),
                 finalize_battle(Ledger, id, winner))

\* The same transactions, with the backend not neglecting for ever a Battle it
\* can finalize.
FairSpec == Spec /\ \A id \in 1..MaxBattles : WF_vars(Settle(id))

\* ------------------------------------------------------------ vocabulary
\* The Battle the last transaction named, as it was before the transaction.
LastId == last.call.id
LastExisted == LastId \in DOMAIN prev.battles
LastBattle == prev.battles[LastId]
LastIs(op) == last.call.op = op
Succeeded == last.res.status = "success"
AbortedWith(code) == last.res = AbortCode(code)
LedgerUnchanged == Ledger = prev

RECURSIVE SumBal(_, _)
SumBal(b, S) == IF S = {} THEN 0 ELSE LET a == CHOOSE x \in S : TRUE IN b[a] + SumBal(b, S \ {a})

\* coin::value of everything a Battle holds.
Custody(b) == b.player1_stake + (IF option_is_none(b.player2_stake) THEN 0 ELSE b.player2_stake[1])

RECURSIVE SumCustody(_, _)
SumCustody(bs, S) ==
    IF S = {} THEN 0 ELSE LET i == CHOOSE x \in S : TRUE IN Custody(bs[i]) + SumCustody(bs, S \ {i})

InitialTotal == Cardinality(Funded) * InitialCoins

\* ------------------------------------------------------------------ C1
\* C1: a finalize_battle call that succeeds (on a ready Battle, naming player 1
\* or player 2) pays exactly player1_stake + player2_stake = 2 x stake_amount to
\* the named winner in that one transaction, pays nobody else anything, and
\* leaves no Battle with that id.
C1_SettlePaysWinnerAll ==
    (LastIs("finalize") /\ Succeeded) =>
        /\ LastExisted
        /\ LastBattle.is_ready
        /\ last.call.winner \in {LastBattle.player1, LastBattle.player2}
        /\ bal[last.call.winner] =
              prev.bal[last.call.winner]
                + LastBattle.player1_stake + LastBattle.player2_stake[1]
        /\ LastBattle.player1_stake + LastBattle.player2_stake[1] = 2 * LastBattle.stake_amount
        /\ \A a \in Accounts \ {last.call.winner} : bal[a] = prev.bal[a]
        /\ LastId \notin DOMAIN battles
        /\ \A i \in DOMAIN prev.battles \ {LastId} :
              i \in DOMAIN battles /\ battles[i] = prev.battles[i]

\* A ready Battle was finalized for player 2, the admin holding the cap.
C1_Witness ==
    /\ LastIs("finalize") /\ Succeeded
    /\ LastExisted /\ LastBattle.is_ready
    /\ last.call.winner = LastBattle.player2
    /\ bal[LastBattle.player1] = prev.bal[LastBattle.player1]
    /\ bal[LastBattle.player2] = prev.bal[LastBattle.player2] + 2 * LastBattle.stake_amount

C3_FundsConserved ==
    /\ SumBal(bal, Accounts) + SumCustody(battles, DOMAIN battles) = InitialTotal
    /\ \A i \in DOMAIN battles :
          Custody(battles[i]) = IF battles[i].is_ready THEN 2 * battles[i].stake_amount
                                ELSE battles[i].stake_amount

\* A Battle was finalized and its prize is in the winner's balance.
C3_Witness ==
    /\ LastIs("finalize") /\ Succeeded
    /\ bal[last.call.winner] = InitialCoins + 1

\* ------------------------------------------------------------------ C4
\* Some join_battle call on Battle id succeeded before the last transaction.
JoinedBefore(id) ==
    \E i \in DOMAIN prev.events :
        prev.events[i].type = "BattleJoined" /\ prev.events[i].battle_id = id

\* C4 as claimed: once a join has succeeded on a Battle, every later join call
\* on it is aborted with EPlayer2AlreadyJoined, whoever calls and whatever
\* stake is offered, and the Battle is unchanged.
C4_LaterJoinAlreadyJoined ==
    (LastIs("join") /\ JoinedBefore(LastId) /\ LastExisted) =>
        AbortedWith(EPlayer2AlreadyJoined) /\ LedgerUnchanged

\* C4 as amended: once a join has succeeded on a Battle, no later join call on
\* it succeeds or changes anything; while the Battle exists the call is aborted
\* with EPlayer2AlreadyJoined when player 2 calls and with ENotAuthorized when
\* anybody else calls (the sender is checked first), whatever stake is offered.
C4_LaterJoinFails ==
    (LastIs("join") /\ JoinedBefore(LastId)) =>
        /\ ~Succeeded
        /\ LedgerUnchanged
        /\ LastExisted =>
              /\ LastBattle.is_ready
              /\ IF last.call.sender = LastBattle.player2
                 THEN AbortedWith(EPlayer2AlreadyJoined)
                 ELSE AbortedWith(ENotAuthorized)

\* Player 2 joined, then called join again with a coin of another value.
C4_Witness ==
    /\ LastIs("join") /\ JoinedBefore(LastId) /\ LastExisted
    /\ last.call.sender = LastBattle.player2
    /\ last.call.stake # LastBattle.stake_amount
    /\ AbortedWith(EPlayer2AlreadyJoined)

\* ------------------------------------------------------------------ C5
\* The BattleJoined events of Battle id: one per join_battle call that succeeded.
JoinsOf(id) == {i \in DOMAIN events : events[i].type = "BattleJoined" /\ events[i].battle_id = id}

\* C5: join calls racing for an open Battle's slot are transactions on one
\* shared object, executed one after the other in some order.  In every order
\* at most one of them succeeds; a call by the designated opponent that comes
\* after the successful one is aborted with EPlayer2AlreadyJoined and changes
\* nothing; the Battle is then ready and holds exactly one player-2 stake,
\* equal to player 1's.
C5_RacingJoinsOneWinner ==
    /\ \A id \in 1..created : Cardinality(JoinsOf(id)) <= 1
    /\ (LastIs("join") /\ LastExisted /\ LastBattle.is_ready
          /\ last.call.sender = LastBattle.player2) =>
            AbortedWith(EPlayer2AlreadyJoined) /\ LedgerUnchanged
    /\ \A id \in DOMAIN battles :
          JoinsOf(id) # {} =>
              /\ battles[id].is_ready
              /\ Len(battles[id].player2_stake) = 1
              /\ battles[id].player2_stake[1] = battles[id].player1_stake

\* Two joins by player 2, each with a coin of exactly the stake, raced: the
\* one executed second lost.
C5_Witness ==
    /\ LastIs("join") /\ LastExisted /\ LastBattle.is_ready
    /\ last.call.sender = LastBattle.player2
    /\ last.call.stake = LastBattle.stake_amount
    /\ Cardinality(JoinsOf(LastId)) = 1
    /\ AbortedWith(EPlayer2AlreadyJoined)

\* ------------------------------------------------------------------ C6
\* C6: the address recorded as a Battle's admin is the only one that can
\* finalize it: a finalize call by any other sender never succeeds.
C6_OnlyRecordedAdminSettles ==
    (LastIs("finalize") /\ Succeeded) => last.call.sender = LastBattle.admin

\* ------------------------------------------------------------------ C7
\* C7: a join call on an open Battle by anybody but its player 2 is aborted
\* with ENotAuthorized, whatever stake is offered, and the Battle stays open
\* with no player-2 stake.
C7_StrangerCannotJoin ==
    (LastIs("join") /\ LastExisted /\ ~LastBattle.is_ready
        /\ last.call.sender # LastBattle.player2) =>
        /\ AbortedWith(ENotAuthorized)
        /\ LedgerUnchanged
        /\ ~battles[LastId].is_ready
        /\ option_is_none(battles[LastId].player2_stake)

\* Player 1 offered a coin of exactly the stake to its own open Battle.
C7_Witness ==
    /\ LastIs("join") /\ LastExisted /\ ~LastBattle.is_ready
    /\ last.call.sender = LastBattle.player1
    /\ last.call.stake = LastBattle.stake_amount
    /\ AbortedWith(ENotAuthorized)

\* ------------------------------------------------------------------ C8
\* What create_battle reports for a zero stake.
ZeroStakeOutcome == create_battle(prev, ALICE, 0, BOB, ADMIN).res

\* The last call was a join by player 2 of an open Battle with a stake of
\* another value than stake_amount.
LastIsMismatchedJoin ==
    /\ LastIs("join") /\ LastExisted /\ ~LastBattle.is_ready
    /\ last.call.sender = LastBattle.player2
    /\ last.call.stake # LastBattle.stake_amount

\* C8 as claimed: such a join fails with a kind of its own, distinct from the
\* one create reports for a zero stake, and the Battle stays open.
C8_MismatchHasOwnKind ==
    LastIsMismatchedJoin =>
        /\ last.res.status = "abort"
        /\ last.res # ZeroStakeOutcome
        /\ LedgerUnchanged

\* C8 as amended: such a join is aborted with EInvalidStakeAmount, the very
\* code create_battle reports for a zero stake, and the Battle stays open.
C8_MismatchIsInvalidStakeAmount ==
    LastIsMismatchedJoin =>
        /\ AbortedWith(EInvalidStakeAmount)
        /\ last.res = ZeroStakeOutcome
        /\ LedgerUnchanged
        /\ ~battles[LastId].is_ready

C8_Witness ==
    /\ LastIsMismatchedJoin
    /\ AbortedWith(EInvalidStakeAmount)
    /\ ~battles[LastId].is_ready

\* ------------------------------------------------------------------ C9
\* The last call was a join by player 2 of an open Battle with a coin of
\* exactly stake_amount.
LastIsMatchingJoin ==
    /\ LastIs("join") /\ LastExisted /\ ~LastBattle.is_ready
    /\ last.call.sender = LastBattle.player2
    /\ last.call.stake = LastBattle.stake_amount

\* C9: such a join succeeds: the coin leaves player 2 and is held by the
\* Battle, is_ready becomes true, and player1, player2, stake_amount, admin
\* (and id and player 1's stake) are what they were.
C9_OpponentJoins ==
    LastIsMatchingJoin =>
        /\ Succeeded
        /\ LastId \in DOMAIN battles
        /\ battles[LastId] = [LastBattle EXCEPT !.player2_stake = <<last.call.stake>>,
                                                !.is_ready = TRUE]
        /\ bal = [prev.bal EXCEPT ![last.call.sender] = @ - last.call.stake]
        /\ Custody(battles[LastId]) = Custody(LastBattle) + last.call.stake

C9_Witness ==
    /\ LastIsMatchingJoin /\ Succeeded
    /\ battles[LastId].is_ready
    /\ battles[LastId].player2_stake = <<LastBattle.stake_amount>>

\* ------------------------------------------------------------------ C10
\* The last call was a create with an opponent other than the sender and a
\* stake of positive value.
LastIsValidCreate ==
    /\ LastIs("create")
    /\ last.call.sender # last.call.opponent
    /\ last.call.stake > 0

\* C10: such a create succeeds and shares a new Battle, under an id no Battle
\* had, with player1 the sender, player2 and admin the addresses given,
\* stake_amount the value of the coin (which the Battle holds), no player-2
\* stake and is_ready false; the Battles that existed are untouched.
C10_CreateOpensBattle ==
    LastIsValidCreate =>
        /\ Succeeded
        /\ created = prev.created + 1
        /\ created \notin DOMAIN prev.battles
        /\ DOMAIN battles = DOMAIN prev.battles \cup {created}
        /\ battles[created] = [id |-> created,
                               player1 |-> last.call.sender,
                               player2 |-> last.call.opponent,
                               player1_stake |-> last.call.stake,
                               player2_stake |-> << >>,
                               stake_amount |-> last.call.stake,
                               is_ready |-> FALSE,
                               admin |-> last.call.admin]
        /\ \A i \in DOMAIN prev.battles : battles[i] = prev.battles[i]
        /\ bal = [prev.bal EXCEPT ![last.call.sender] = @ - last.call.stake]

\* A Battle was created with an admin address that does not hold the AdminCap.
C10_Witness ==
    /\ LastIsValidCreate /\ Succeeded
    /\ last.call.admin # capOwner
    /\ created \in DOMAIN battles
    /\ ~battles[created].is_ready

\* ------------------------------------------------------------------ C11
\* C11: a create call naming the sender as opponent is aborted with
\* ECannotJoinOwnBattle for every stake, zero included; no Battle is created
\* and no coin is taken.
C11_SelfBattleRefused ==
    (LastIs("create") /\ last.call.sender = last.call.opponent) =>
        /\ AbortedWith(ECannotJoinOwnBattle)
        /\ LedgerUnchanged
        /\ created = prev.created
        /\ bal[last.call.sender] = prev.bal[last.call.sender]

\* An account named itself as opponent and offered a zero coin.
C11_Witness ==
    /\ LastIs("create") /\ last.call.sender = last.call.opponent
    /\ last.call.stake = 0
    /\ AbortedWith(ECannotJoinOwnBattle)

\* ------------------------------------------------------------------ C12
\* C12: a create call with an opponent other than the sender and a coin of
\* value zero is aborted with EInvalidStakeAmount and creates no Battle.
C12_ZeroStakeRefused ==
    (LastIs("create") /\ last.call.sender # last.call.opponent /\ last.call.stake = 0) =>
        /\ AbortedWith(EInvalidStakeAmount)
        /\ LedgerUnchanged
        /\ DOMAIN battles = DOMAIN prev.battles
        /\ created = prev.created

\* A funded account offered a zero coin against another account.
C12_Witness ==
    /\ LastIs("create") /\ last.call.sender # last.call.opponent /\ last.call.stake = 0
    /\ prev.bal[last.call.sender] > 0
    /\ AbortedWith(EInvalidStakeAmount)

\* ------------------------------------------------------------------ C13
\* C13: a finalize call on a Battle that is not ready never succeeds, whatever
\* winner it names: finalize_battle, which only the AdminCap's owner can call,
\* aborts with EBattleNotReady before it looks at the winner, and the Battle
\* stays open with player 1's stake in custody.
C13_SettleBeforeJoinNotReady ==
    (LastIs("finalize") /\ LastExisted /\ ~LastBattle.is_ready) =>
        /\ ~Succeeded
        /\ last.call.sender = capOwner => AbortedWith(EBattleNotReady)
        /\ LedgerUnchanged
        /\ ~battles[LastId].is_ready
        /\ Custody(battles[LastId]) = LastBattle.stake_amount

\* The admin named an account that is no party of an open Battle.
C13_Witness ==
    /\ LastIs("finalize") /\ LastExisted /\ ~LastBattle.is_ready
    /\ last.call.sender = capOwner
    /\ last.call.winner \notin {LastBattle.player1, LastBattle.player2}
    /\ AbortedWith(EBattleNotReady)

\* ------------------------------------------------------------------ C14
\* C14: a finalize call on a ready Battle naming a winner that is neither
\* player 1 nor player 2 never succeeds: finalize_battle aborts with
\* EInvalidWinner, and the Battle stays ready with both stakes in custody.
C14_OutsiderCannotWin ==
    (LastIs("finalize") /\ LastExisted /\ LastBattle.is_ready
        /\ last.call.winner \notin {LastBattle.player1, LastBattle.player2}) =>
        /\ ~Succeeded
        /\ last.call.sender = capOwner => AbortedWith(EInvalidWinner)
        /\ LedgerUnchanged
        /\ battles[LastId].is_ready
        /\ Custody(battles[LastId]) = 2 * LastBattle.stake_amount
        /\ bal[last.call.winner] = prev.bal[last.call.winner]

C14_Witness ==
    /\ LastIs("finalize") /\ LastExisted /\ LastBattle.is_ready
    /\ last.call.sender = capOwner
    /\ last.call.winner \notin {LastBattle.player1, LastBattle.player2}
    /\ AbortedWith(EInvalidWinner)
    /\ Custody(battles[LastId]) = 2 * LastBattle.stake_amount

\* ------------------------------------------------------------------ C15
\* Event i is a BattleJoined and a later event is the BattleCancelled of the same Battle.
CancelledAfterJoin ==
    \E i, j \in DOMAIN events :
        /\ i < j
        /\ events[i].type = "BattleJoined" /\ events[j].type = "BattleCancelled"
        /\ events[i].battle_id = events[j].battle_id

\* C15: a cancel call on a ready Battle is aborted with EBattleAlreadyFull (the
\* code cancel_battle has for "already joined"), whoever calls: player 1,
\* player 2, the admin or anybody else; the Battle stays ready with both
\* stakes in custody, and no Battle is ever cancelled after it was joined.
C15_NoCancelOnceJoined ==
    /\ (LastIs("cancel") /\ LastExisted /\ LastBattle.is_ready) =>
          /\ AbortedWith(EBattleAlreadyFull)
          /\ LedgerUnchanged
          /\ battles[LastId].is_ready
          /\ Custody(battles[LastId]) = 2 * LastBattle.stake_amount
    /\ ~CancelledAfterJoin

\* An account that is neither player 1 nor the admin tried to cancel a ready Battle.
C15_Witness ==
    /\ LastIs("cancel") /\ LastExisted /\ LastBattle.is_ready
    /\ last.call.sender \notin {LastBattle.player1, LastBattle.admin}
    /\ AbortedWith(EBattleAlreadyFull)

\* ------------------------------------------------------------------ C16
\* C16: a cancel call on an open Battle by player 1 or by the Battle's admin
\* address succeeds, pays exactly player 1's stake to player 1 (not to the
\* caller when the admin calls, and never to player 2) and deletes the Battle.
C16_CancelRefundsInitiator ==
    (LastIs("cancel") /\ LastExisted /\ ~LastBattle.is_ready
        /\ last.call.sender \in {LastBattle.player1, LastBattle.admin}) =>
        /\ Succeeded
        /\ bal = [prev.bal EXCEPT ![LastBattle.player1] = @ + LastBattle.player1_stake]
        /\ LastBattle.player1_stake = LastBattle.stake_amount
        /\ LastId \notin DOMAIN battles
        /\ \A i \in DOMAIN prev.battles \ {LastId} :
              i \in DOMAIN battles /\ battles[i] = prev.battles[i]

\* The Battle's admin, who is not a player, cancelled it: player 1 got the stake.
C16_Witness ==
    /\ LastIs("cancel") /\ LastExisted /\ ~LastBattle.is_ready /\ Succeeded
    /\ last.call.sender = LastBattle.admin
    /\ last.call.sender \notin {LastBattle.player1, LastBattle.player2}
    /\ bal[last.call.sender] = prev.bal[last.call.sender]
    /\ bal[LastBattle.player1] = prev.bal[LastBattle.player1] + LastBattle.stake_amount

\* ------------------------------------------------------------------ C17
\* C17: a cancel call on an open Battle by a sender that is neither player 1
\* nor the Battle's admin (player 2 included) is aborted with ENotAuthorized,
\* and the Battle stays open with player 1's stake in custody.
C17_StrangerCannotCancel ==
    (LastIs("cancel") /\ LastExisted /\ ~LastBattle.is_ready
        /\ last.call.sender \notin {LastBattle.player1, LastBattle.admin}) =>
        /\ AbortedWith(ENotAuthorized)
        /\ LedgerUnchanged
        /\ ~battles[LastId].is_ready
        /\ Custody(battles[LastId]) = LastBattle.stake_amount

\* Player 2 tried to cancel the open Battle it was invited to.
C17_Witness ==
    /\ LastIs("cancel") /\ LastExisted /\ ~LastBattle.is_ready
    /\ last.call.sender = LastBattle.player2
    /\ last.call.sender # LastBattle.admin
    /\ AbortedWith(ENotAuthorized)

\* ------------------------------------------------------------------ C18
\* The ids of the Battles that a log of events says were finalized or cancelled.
TerminalIds(log) ==
    {log[i].battle_id : i \in {j \in DOMAIN log :
                                 log[j].type \in {"BattleFinalized", "BattleCancelled"}}}

\* C18: a Battle that was finalized or cancelled is gone for good: its id never
\* names a Battle again, and no join, finalize or cancel call on that id
\* succeeds, moves a coin or changes anything.
C18_TerminalIsFinal ==
    /\ TerminalIds(events) \cap DOMAIN battles = {}
    /\ (last.call.op \in {"join", "finalize", "cancel"}
          /\ LastId \in TerminalIds(prev.events)) =>
            /\ ~Succeeded
            /\ LedgerUnchanged

\* The admin tried to finalize, for a player, a Battle that no longer exists.
C18_Witness ==
    /\ LastIs("finalize") /\ LastId \in TerminalIds(prev.events)
    /\ last.call.sender = capOwner
    /\ ~Succeeded
    /\ LastId \notin DOMAIN battles

\* ------------------------------------------------------------------ C19
\* The log ends with events of these types, in this order, all of Battle id.
LogEndsWith(types, id) ==
    /\ Len(events) >= Len(types)
    /\ \A k \in DOMAIN types :
          LET e == events[Len(events) - Len(types) + k]
          IN e.type = types[k] /\ e.battle_id = id

\* The last three transactions that changed the ledger were create_battle by A
\* against B, join_battle by B and finalize_battle naming A, on one Battle.
OpenJoinSettleForInitiator ==
    /\ LastIs("finalize") /\ Succeeded
    /\ last.call.winner = LastBattle.player1
    /\ LogEndsWith(<<"BattleCreated", "BattleJoined", "BattleFinalized">>, LastId)

\* C19 as claimed (stake 500, prize 1000): after create, join, finalize for A,
\* A's balance is two stakes above and B's one stake below what they were
\* before the create.
C19_InitiatorEndsTwoStakesUp ==
    OpenJoinSettleForInitiator =>
        /\ bal[LastBattle.player1] =
              openBal[LastId][LastBattle.player1] + 2 * LastBattle.stake_amount
        /\ bal[LastBattle.player2] =
              openBal[LastId][LastBattle.player2] - LastBattle.stake_amount

\* C19 as amended: after create, join, finalize for A, A's balance is one stake
\* above what it was before the create (A is paid two stakes, one of them its
\* own), B's is one stake below, and nobody else's has changed.
C19_InitiatorEndsOneStakeUp ==
    OpenJoinSettleForInitiator =>
        /\ bal[LastBattle.player1] =
              openBal[LastId][LastBattle.player1] + LastBattle.stake_amount
        /\ bal[LastBattle.player1] = prev.bal[LastBattle.player1] + 2 * LastBattle.stake_amount
        /\ bal[LastBattle.player2] =
              openBal[LastId][LastBattle.player2] - LastBattle.stake_amount
        /\ \A a \in Accounts \ {LastBattle.player1, LastBattle.player2} :
              bal[a] = openBal[LastId][a]

\* ALICE opened against BOB with the publisher as admin, BOB joined, the admin
\* declared ALICE the winner.
C19_Witness ==
    /\ OpenJoinSettleForInitiator
    /\ LastBattle.player1 = ALICE /\ LastBattle.player2 = BOB /\ LastBattle.admin = ADMIN
    /\ last.call.sender = ADMIN
    /\ bal[ALICE] = openBal[LastId][ALICE] + LastBattle.stake_amount
    /\ bal[BOB] = openBal[LastId][BOB] - LastBattle.stake_amount

\* ------------------------------------------------------------------ C20
\* The last two transactions that changed the ledger were create_battle by A
\* and cancel_battle by A, on one Battle.
OpenThenCancelByInitiator ==
    /\ LastIs("cancel") /\ Succeeded
    /\ last.call.sender = LastBattle.player1
    /\ LogEndsWith(<<"BattleCreated", "BattleCancelled">>, LastId)

\* C20: create followed by player 1's cancel gives every balance back: for
\* every stake > 0, A's balance and everybody else's are what they were before
\* the create, and the Battle is no longer there.
C20_OpenCancelRoundTrip ==
    OpenThenCancelByInitiator =>
        /\ LastBattle.stake_amount > 0
        /\ bal = openBal[LastId]
        /\ prev.bal[LastBattle.player1] = bal[LastBattle.player1] - LastBattle.stake_amount
        /\ LastId \notin DOMAIN battles
        /\ DOMAIN battles = DOMAIN prev.battles \ {LastId}

\* ALICE opened a Battle whose admin is somebody else, and cancelled it herself.
C20_Witness ==
    /\ OpenThenCancelByInitiator
    /\ LastBattle.player1 = ALICE /\ LastBattle.admin # ALICE
    /\ bal[ALICE] = InitialCoins
    /\ battles = << >>

\* ------------------------------------------------------------------ C21
\* C21: in every reachable state, every Battle that exists has is_ready true
\* exactly when player2_stake holds a coin, and a coin held there has the value
\* of player1_stake, both being stake_amount.
C21_ReadyIffBothStakesHeld ==
    \A id \in DOMAIN battles :
        LET b == battles[id] IN
        /\ b.is_ready <=> ~option_is_none(b.player2_stake)
        /\ b.player1_stake = b.stake_amount
        /\ ~option_is_none(b.player2_stake) =>
               /\ Len(b.player2_stake) = 1
               /\ b.player2_stake[1] = b.player1_stake
               /\ b.player2_stake[1] = b.stake_amount

\* A Battle that player 2 has joined: ready, holding two equal stakes.
C21_Witness ==
    \E id \in DOMAIN battles :
        /\ battles[id].is_ready
        /\ battles[id].player2_stake = <<battles[id].stake_amount>>
        /\ battles[id].player1_stake = battles[id].stake_amount
        /\ battles[id].stake_amount > 0

\* ------------------------------------------------------------------ C22
\* The fields of a Battle that are written once, by create_battle.
Identity(b) == <<b.id, b.player1, b.player2, b.stake_amount, b.admin>>

\* The BattleCreated event of a Battle carries the values it was created with.
CreatedAs(b) == BattleCreated(b.id, b.player1, b.player2, b.stake_amount)

\* C22: id, player1, player2, stake_amount and admin of a Battle keep the values
\* create_battle gave them for as long as the Battle exists: no transaction
\* (a join, or a finalize or cancel that is refused) changes any of them, and
\* they stay the values its BattleCreated event announced, under the id it is
\* shared as.
C22_IdentityFieldsFrozen ==
    /\ \A id \in DOMAIN battles \cap DOMAIN prev.battles :
           Identity(battles[id]) = Identity(prev.battles[id])
    /\ \A id \in DOMAIN battles :
           /\ battles[id].id = id
           /\ \E i \in DOMAIN events : events[i] = CreatedAs(battles[id])
    /\ (LastExisted /\ ~Succeeded /\ (LastIs("finalize") \/ LastIs("cancel"))) =>
           /\ LastId \in DOMAIN battles
           /\ battles[LastId] = LastBattle

\* A join has just succeeded on a Battle whose admin is not the publisher: the
\* Battle is still there with the five fields it had.
C22_Witness ==
    /\ LastIs("join") /\ Succeeded /\ LastExisted
    /\ LastId \in DOMAIN battles
    /\ battles[LastId] # LastBattle
    /\ Identity(battles[LastId]) = Identity(LastBattle)
    /\ LastBattle.admin # capOwner

\* ------------------------------------------------------------------ C23
\* The Battles that were open (created, not joined) before the last transaction.
OpenBefore == {id \in DOMAIN prev.battles : ~prev.battles[id].is_ready}

\* C23: a Battle that is open stops being open in two ways only: a join_battle
\* on it that succeeds, after which it is ready, or a cancel_battle on it that
\* succeeds, after which it is deleted.  Any other transaction (a finalize_battle
\* in particular, whoever sends it) leaves it exactly as it was, so nothing
\* ever forces an open Battle to move on.
C23_OpenLeavesByJoinOrCancel ==
    /\ \A id \in OpenBefore :
           \/ /\ id \in DOMAIN battles
              /\ battles[id] = prev.battles[id]
           \/ /\ LastIs("join") /\ LastId = id /\ Succeeded
              /\ id \in DOMAIN battles
              /\ battles[id].is_ready
           \/ /\ LastIs("cancel") /\ LastId = id /\ Succeeded
              /\ id \notin DOMAIN battles
    /\ (LastIs("finalize") /\ LastExisted /\ LastId \in OpenBefore) =>
           /\ ~Succeeded
           /\ LastId \in DOMAIN battles
           /\ battles[LastId] = LastBattle
           /\ ~battles[LastId].is_ready

\* The AdminCap's owner has tried to finalize an open Battle for player 1: the
\* Battle is open as before.
C23_Witness ==
    /\ LastIs("finalize") /\ LastExisted /\ LastId \in OpenBefore
    /\ last.call.sender = capOwner
    /\ last.call.winner = LastBattle.player1
    /\ LastId \in DOMAIN battles
    /\ ~battles[LastId].is_ready
    /\ battles[LastId] = LastBattle

\* ------------------------------------------------------------------ C24
\* The event a successful transaction has to emit, from its call and the
\* Battle it named.
ExpectedEvent ==
    IF LastIs("create")
    THEN BattleCreated(prev.created + 1, last.call.sender, last.call.opponent, last.call.stake)
    ELSE IF LastIs("join")
    THEN BattleJoined(LastId, LastBattle.player2)
    ELSE IF LastIs("finalize")
    THEN BattleFinalized(LastId, last.call.winner, 2 * LastBattle.stake_amount)
    ELSE BattleCancelled(LastId, LastBattle.player1)

\* C24: a transaction that succeeds appends exactly one event to the log, of
\* its own kind and with the Battle's data: create_battle a BattleCreated
\* {battle_id, player1, player2, stake_amount}, join_battle a BattleJoined
\* {battle_id, player2}, finalize_battle a BattleFinalized {battle_id, winner,
\* total_prize = 2 x stake_amount}, cancel_battle a BattleCancelled {battle_id,
\* refunded_to = player1}; a transaction that is refused appends nothing.
C24_OneEventPerSuccess ==
    /\ (Succeeded /\ ~LastIs("init")) => events = Append(prev.events, ExpectedEvent)
    /\ ~Succeeded => events = prev.events
    /\ LastIs("init") => events = << >>

\* A finalize_battle has succeeded and the log's new, last entry is its
\* BattleFinalized event.
C24_Witness ==
    /\ LastIs("finalize") /\ Succeeded
    /\ Len(events) = Len(prev.events) + 1
    /\ events[Len(events)].type = "BattleFinalized"
    /\ events[Len(events)].battle_id = LastId
    /\ events[Len(events)].total_prize > 0

\* ------------------------------------------------------------------ C27
\* C27: in every reachable state, every Battle that exists has two different
\* players and a stake_amount above zero.
C27_DistinctPlayersPositiveStake ==
    \A id \in DOMAIN battles :
        /\ battles[id].player1 # battles[id].player2
        /\ battles[id].stake_amount > 0

\* A Battle exists whose creator could have named itself or staked nothing:
\* it owns coins, and the Battle it opened has another player 2 and a stake.
C27_Witness ==
    \E id \in DOMAIN battles :
        /\ ~battles[id].is_ready
        /\ battles[id].player1 \in Funded
        /\ battles[id].player2 \in Accounts \ {battles[id].player1}
        /\ battles[id].stake_amount \in 1..MaxStake

\* ------------------------------------------------------------------ C28
\* The log has an event of this type for this Battle.
HasEvent(log, type, id) ==
    \E i \in DOMAIN log : log[i].type = type /\ log[i].battle_id = id

\* The last transaction was a cancel_battle on an existing Battle by its
\* player 1 or its admin address.
LastIsEntitledCancel ==
    /\ LastIs("cancel") /\ LastExisted
    /\ last.call.sender \in {LastBattle.player1, LastBattle.admin}

\* C28: player 2's join_battle and a cancel_battle by player 1 (or the admin)
\* sent for the same open Battle are two transactions, executed in one order
\* or the other, and exactly one succeeds.  Whichever comes first on the open
\* Battle succeeds: the join makes it ready and refunds nobody, the cancel
\* deletes it, refunds player 1 and takes nothing from player 2.  The one that
\* comes second changes nothing: the cancel after the join aborts with
\* EBattleAlreadyFull, the join after the cancel finds no Battle and player 2
\* keeps its coin.  No Battle ever has both a BattleJoined and a
\* BattleCancelled event.
C28_JoinCancelRaceOneWinner ==
    /\ \A id \in 1..created :
           ~(HasEvent(events, "BattleJoined", id) /\ HasEvent(events, "BattleCancelled", id))
    /\ (LastIsMatchingJoin /\ ~LastBattle.is_ready) =>
           /\ Succeeded
           /\ battles[LastId].is_ready
           /\ bal[LastBattle.player1] = prev.bal[LastBattle.player1]
    /\ (LastIsEntitledCancel /\ ~LastBattle.is_ready) =>
           /\ Succeeded
           /\ LastId \notin DOMAIN battles
           /\ bal[LastBattle.player1] = prev.bal[LastBattle.player1] + LastBattle.stake_amount
           /\ bal[LastBattle.player2] = prev.bal[LastBattle.player2]
    /\ (LastIsEntitledCancel /\ HasEvent(prev.events, "BattleJoined", LastId)) =>
           /\ AbortedWith(EBattleAlreadyFull)
           /\ LedgerUnchanged
    /\ (LastIs("join") /\ HasEvent(prev.events, "BattleCancelled", LastId)) =>
           /\ last.res = Rejected
           /\ LedgerUnchanged

\* Player 2's join came first and player 1's cancel second: the log's last
\* event is still the BattleJoined of the Battle, which is ready.
C28_Witness ==
    /\ LastIsEntitledCancel
    /\ last.call.sender = LastBattle.player1
    /\ Len(events) > 0
    /\ events[Len(events)] = BattleJoined(LastId, LastBattle.player2)
    /\ LastId \in DOMAIN battles
    /\ battles[LastId].is_ready
    /\ ~Succeeded

\* ------------------------------------------------------------------ C30
\* The types of the events a log holds for one Battle, in the order emitted.
EventTypesOf(log, id) ==
    LET own == SelectSeq(log, LAMBDA e : e.battle_id = id)
    IN [k \in DOMAIN own |-> own[k].type]

\* The two complete lives of a Battle.
CancelledLife == <<"BattleCreated", "BattleCancelled">>
FinalizedLife == <<"BattleCreated", "BattleJoined", "BattleFinalized">>

IsPrefix(s, t) == Len(s) <= Len(t) /\ s = SubSeq(t, 1, Len(s))

\* How many entries of a sequence of types are of the given types.
CountOf(types, S) == Cardinality({k \in DOMAIN types : types[k] \in S})

\* C30: for each Battle id, the events emitted so far are, in order, a
\* beginning of BattleCreated, BattleCancelled or of BattleCreated,
\* BattleJoined, BattleFinalized.  So a BattleFinalized comes after exactly one
\* BattleJoined, a BattleCancelled after none, and a Battle has at most one
\* BattleFinalized or BattleCancelled event; ids not handed out have no event.
C30_EventsFollowLifecycle ==
    /\ \A id \in 1..created :
           LET types == EventTypesOf(events, id) IN
           /\ Len(types) >= 1
           /\ IsPrefix(types, CancelledLife) \/ IsPrefix(types, FinalizedLife)
           /\ CountOf(types, {"BattleFinalized", "BattleCancelled"}) <= 1
           /\ CountOf(types, {"BattleFinalized"}) = 1 => CountOf(types, {"BattleJoined"}) = 1
           /\ CountOf(types, {"BattleCancelled"}) = 1 => CountOf(types, {"BattleJoined"}) = 0
    /\ \A i \in DOMAIN events : events[i].battle_id \in 1..created

\* A Battle has lived its whole finalized life, and calls on it kept coming.
C30_Witness ==
    \E id \in 1..created :
        /\ EventTypesOf(events, id) = FinalizedLife
        /\ last.call.op \in {"join", "finalize", "cancel"}
        /\ LastId = id
        /\ ~Succeeded

\* ------------------------------------------------------------------ C29
\* The Battles that were ready (both stakes in custody) before the last transaction.
ReadyBefore == {id \in DOMAIN prev.battles : prev.battles[id].is_ready}

\* Coins leave a ready Battle in one way only: a finalize_battle by the
\* AdminCap's owner naming one of its players.  After any other transaction
\* (a cancel or a join by either player included) the Battle is as it was.
ReadyLeavesBySettleOnly ==
    \A id \in ReadyBefore :
        \/ /\ id \in DOMAIN battles
           /\ battles[id] = prev.battles[id]
           /\ Custody(battles[id]) = 2 * battles[id].stake_amount
        \/ /\ LastIs("finalize") /\ LastId = id /\ Succeeded
           /\ last.call.sender = capOwner
           /\ last.call.winner \in {prev.battles[id].player1, prev.battles[id].player2}
           /\ id \notin DOMAIN battles

IsReady(id) == id \in DOMAIN battles /\ battles[id].is_ready
IsSettled(id) == id \notin DOMAIN battles /\ HasEvent(events, "BattleFinalized", id)

\* C29: the stakes of a ready Battle leave it only through a successful
\* finalize_battle by the AdminCap's owner for player 1 or player 2: no player
\* can cancel or withdraw and nothing times out; and if the AdminCap's owner
\* does not for ever neglect a finalize_battle it can make (weak fairness of
\* Settle), every ready Battle is eventually finalized and deleted.
C29_ReadySettledOnlyByAdmin ==
    /\ []ReadyLeavesBySettleOnly
    /\ \A id \in 1..MaxBattles : IsReady(id) ~> IsSettled(id)

\* A ready Battle has just been finalized for player 2 and is gone, its two
\* stakes with player 2.
C29_Witness ==
    /\ LastIs("finalize") /\ Succeeded /\ LastId \in ReadyBefore
    /\ last.call.winner = LastBattle.player2
    /\ IsSettled(LastId)
    /\ bal[LastBattle.player2] = prev.bal[LastBattle.player2] + 2 * LastBattle.stake_amount

\* ------------------------------------------------------------------ C25
TokLastIs(op) == tokLast.call.op = op
TokSucceeded == tokLast.res = Success

\* C25: total_supply is 0 after init and, after any run of mint and burn
\* transactions, is the sum of the amounts of the mints that succeeded minus
\* the sum of the values of the coins burned; a mint that succeeds adds exactly
\* its amount to the recipient's coins (and nothing to anybody else's), and a
\* burn returns exactly the value of the coin it was given and destroys it.
C25_SupplyIsMintedMinusBurned ==
    /\ total_supply(TokenLedger) = minted - burned
    /\ TokLastIs("init") => total_supply(TokenLedger) = 0
    /\ (TokLastIs("mint") /\ TokSucceeded) =>
           /\ owned = [tokPrev.owned EXCEPT ![tokLast.call.recipient] = @ + tokLast.call.amount]
           /\ total_supply(TokenLedger) = total_supply(tokPrev) + tokLast.call.amount
    /\ TokLastIs("burn") =>
           /\ TokSucceeded
           /\ tokLast.ret = tokLast.call.amount
           /\ owned = [tokPrev.owned EXCEPT ![tokLast.call.recipient] = @ - tokLast.ret]
           /\ total_supply(TokenLedger) = total_supply(tokPrev) - tokLast.ret

\* Part of what was minted has been burned: the burn returned the coin's
\* value and some supply is left, in the hands of somebody else too.
C25_Witness ==
    /\ TokLastIs("burn") /\ TokSucceeded
    /\ tokLast.ret > 0
    /\ burned > 0
    /\ total_supply(TokenLedger) > 0
    /\ minted = total_supply(TokenLedger) + burned
    /\ \E a \in Accounts \ {tokLast.call.recipient} : owned[a] > 0

\* ------------------------------------------------------------------ C26
\* C26: a mint of amount 0 by the MintCap's owner aborts with EInvalidAmount:
\* nobody is credited anything and total_supply is what it was.
C26_MintZeroFails ==
    (TokLastIs("mint") /\ tokLast.call.sender = mintCapOwner /\ tokLast.call.amount = 0) =>
        /\ tokLast.res = AbortCode(EInvalidAmount)
        /\ owned = tokPrev.owned
        /\ total_supply(TokenLedger) = total_supply(tokPrev)
        /\ minted - burned = total_supply(tokPrev)

\* The MintCap's owner asked for 0 tokens for somebody else, with tokens in
\* circulation already.
C26_Witness ==
    /\ TokLastIs("mint") /\ tokLast.call.sender = mintCapOwner /\ tokLast.call.amount = 0
    /\ tokLast.call.recipient # mintCapOwner
    /\ ~TokSucceeded
    /\ total_supply(TokenLedger) > 0

====
